---- MODULE Spec2Model ----
(***************************************************************************)
(* Hedgerow planner: the point generator (generate_points), the policy-D   *)
(* species allocator (attribute_species_to_points_with_clusters) and the   *)
(* summary reporter (create_species_summary_table_with_percentages) of     *)
(* src/hedge-planting-along-line-species.py.                               *)
(*                                                                         *)
(* Geometry is modelled by arc length only: a feature is the sequence of   *)
(* the lengths of its parts, geom.length() is their sum, and the point     *)
(* geom.interpolate(d) is identified by the feature and the distance d.    *)
(* Lengths and plant_spacing are integers, so `distance += plant_spacing`  *)
(* is exact.                                                               *)
(***************************************************************************)
EXTENDS Integers, Sequences, FiniteSets, TLC

\* ---- bounds of the model ------------------------------------------------
MaxRows == 4
MaxLen == 3
MaxFeatures == 2
MaxCluster == 2
MaxSpacing == 2
MaxPartLen == 2
MaxPoints == 6
MaxThinPoints == 8

\* ---- values ---------------------------------------------------------------
\* QGIS NULL of a string attribute (species is created as None)
NULL == "NULL"
\* QGIS NULL of the integer attribute cluster_id, which the allocator adds
NULL_INT == -1
\* an index of a shuffled list whose value has not been read yet
Undrawn == "undrawn"

VARIABLES
    \* inputs of the script
    features, rows, plant_spacing,
    \* control
    pc, outcome,
    \* generate_points
    fi, li, row, distance, id_counter, gatter_counter,
    \* the point layer
    points,
    \* attribute_species_to_points_with_clusters
    species_distribution, tree_percentage, min_cluster_size, max_cluster_size,
    tree_list, shrub_list, global_cluster_id, tree_count, shrub_count,
    extra_trees, gatter_tree_count, gi, row_points, i,
    \* history of the allocator: the share computed for each gatter, the
    \* (gatter, row, size drawn, size used) of each cluster call
    shares, calls,
    \* create_species_summary_table_with_percentages
    species_count,
    \* create_group_polygons
    group_polygons

inputVars == <<features, rows, plant_spacing>>
genVars == <<fi, li, distance, id_counter, gatter_counter>>
paramVars == <<species_distribution, tree_percentage, min_cluster_size, max_cluster_size>>
allocVars == <<tree_list, shrub_list, global_cluster_id, tree_count, shrub_count,
               extra_trees, gatter_tree_count, gi, row_points, i, shares, calls>>
vars == <<inputVars, pc, outcome, genVars, row, points, paramVars, allocVars, species_count, group_polygons>>

\* ---- helpers --------------------------------------------------------------
RECURSIVE SeqSum(_)
SeqSum(s) == IF s = <<>> THEN 0 ELSE Head(s) + SeqSum(Tail(s))

Min(a, b) == IF a < b THEN a ELSE b
Max(a, b) == IF a > b THEN a ELSE b

Range(s) == {s[k] : k \in DOMAIN s}

\* the orders random.shuffle can leave a list of distinct elements in
Shuffles(s) == {p \in [1..Len(s) -> Range(s)] : Range(p) = Range(s)}

\* ---- generate_points ------------------------------------------------------
\* lines = geom.asMultiPolyline() or [geom.asPolyline()]
Lines(f) == features[f]

\* geom.length(): the length of the whole geometry of the feature
GeomLength(f) == SeqSum(features[f])

\* line_length = geom.length(), evaluated for every line of the feature
LineLength(f, l) == GeomLength(f)

\* "shrub" if row == 0 or row == rows - 1 else "unassigned"
TypeValue(r) == IF r = 0 \/ r = rows - 1 THEN "shrub" ELSE "unassigned"

\* the two arc lengths the offset angle is computed from
DirFrom(d, len) == IF d + plant_spacing < len THEN d ELSE d - plant_spacing
DirTo(d, len) == IF d + plant_spacing < len THEN d + plant_spacing ELSE d

\* one iteration of `while distance < line_length`
GenPoint ==
    /\ pc = "generate"
    /\ fi <= Len(features)
    /\ li <= Len(Lines(fi))
    /\ row < rows
    /\ distance < LineLength(fi, li)
    /\ points' = Append(points,
          [id |-> id_counter, type |-> TypeValue(row), species |-> NULL,
           row |-> row, gatter |-> gatter_counter, cluster_id |-> NULL_INT,
           feat |-> fi, part |-> li, dist |-> distance,
           dir_from |-> DirFrom(distance, LineLength(fi, li)),
           dir_to |-> DirTo(distance, LineLength(fi, li))])
    /\ distance' = distance + plant_spacing
    /\ id_counter' = id_counter + 1
    /\ UNCHANGED <<inputVars, pc, outcome, fi, li, row, gatter_counter,
                   paramVars, allocVars, species_count, group_polygons>>

\* the while loop ends: next iteration of `for row in range(rows)`
GenNextRow ==
    /\ pc = "generate"
    /\ fi <= Len(features)
    /\ li <= Len(Lines(fi))
    /\ row < rows
    /\ distance >= LineLength(fi, li)
    /\ row' = row + 1
    /\ distance' = 0
    /\ UNCHANGED <<inputVars, pc, outcome, fi, li, id_counter, gatter_counter,
                   points, paramVars, allocVars, species_count, group_polygons>>

\* a bug: gatter_counter += 1 inside the loop over the lines
GenNextLineBumpsGatter ==
    /\ pc = "generate"
    /\ fi <= Len(features)
    /\ li <= Len(Lines(fi))
    /\ row = rows
    /\ li' = li + 1
    /\ row' = 0
    /\ distance' = 0
    /\ gatter_counter' = gatter_counter + 1
    /\ UNCHANGED <<inputVars, pc, outcome, fi, id_counter,
                   points, paramVars, allocVars, species_count, group_polygons>>

\* the row loop ends: next iteration of `for line in lines`
GenNextLine ==
    /\ pc = "generate"
    /\ fi <= Len(features)
    /\ li <= Len(Lines(fi))
    /\ row = rows
    /\ li' = li + 1
    /\ row' = 0
    /\ distance' = 0
    /\ UNCHANGED <<inputVars, pc, outcome, fi, id_counter, gatter_counter,
                   points, paramVars, allocVars, species_count, group_polygons>>

\* the line loop ends: gatter_counter += 1, next feature
GenNextFeature ==
    /\ pc = "generate"
    /\ fi <= Len(features)
    /\ li > Len(Lines(fi))
    /\ gatter_counter' = gatter_counter + 1
    /\ fi' = fi + 1
    /\ li' = 1
    /\ UNCHANGED <<inputVars, pc, outcome, row, distance, id_counter,
                   points, paramVars, allocVars, species_count, group_polygons>>

\* the feature loop ends: return point_layer
GenDone ==
    /\ pc = "generate"
    /\ fi > Len(features)
    /\ pc' = "generated"
    /\ UNCHANGED <<inputVars, outcome, genVars, row, points, paramVars,
                   allocVars, species_count, group_polygons>>

NextGen == GenPoint \/ GenNextRow \/ GenNextLine \/ GenNextFeature \/ GenDone

\* ---- attribute_species_to_points_with_clusters (policy D) ----------------
\* the example catalog of the script, cut down to two species of each type
FullCatalog ==
    <<[species |-> "Quercus robur", type |-> "tree"],
      [species |-> "Acer campestre", type |-> "tree"],
      [species |-> "Rosa canina", type |-> "shrub"],
      [species |-> "Salix caprea", type |-> "shrub"]>>
NoTreeCatalog == <<[species |-> "Rosa canina", type |-> "shrub"]>>
NoShrubCatalog == <<[species |-> "Quercus robur", type |-> "tree"]>>
Catalogs == {FullCatalog, NoTreeCatalog, NoShrubCatalog}

\* tree percentages tried; for these int(total * (p / 100)) is exact
Percentages == {30, 100}

IsTree(sp) == sp.type = "tree"
IsShrub(sp) == sp.type = "shrub"
Names(sel) == [k \in 1..Len(sel) |-> sel[k].species]

\* [species["species"] for species in species_distribution if species["type"] == ...]
tree_species == Names(SelectSeq(species_distribution, IsTree))
shrub_species == Names(SelectSeq(species_distribution, IsShrub))

total_points == Len(points)
\* int(total_points * (tree_percentage / 100))
tree_points_count == (total_points * tree_percentage) \div 100
shrub_points_count == total_points - tree_points_count

\* [species for species in names for _ in range(count // len(names) + 1)]:
\* the inner range is only evaluated for an element of names, so an empty
\* catalog gives an empty list without dividing
Repeated(names, count) ==
    IF Len(names) = 0 THEN <<>>
    ELSE LET m == count \div Len(names) + 1
         IN [k \in 1..(Len(names) * m) |-> names[(k - 1) \div m + 1]]

\* the lists before random.shuffle
TreeListBase == Repeated(tree_species, tree_points_count)
ShrubListBase == Repeated(shrub_species, shrub_points_count)

Occurrences(list, s) == Cardinality({k \in DOMAIN list : list[k] = s})

\* random.shuffle(list): the element at an index is fixed when it is first
\* read; it can be any element of which the list still holds an unread copy.
\* The runs are exactly those of a list shuffled before the loop.
Drawn(list, base, k) ==
    IF list[k] # Undrawn THEN {list[k]}
    ELSE {s \in Range(base) : Occurrences(list, s) < Occurrences(base, s)}

\* list[count % len(list)], with the 1-based indices of a sequence
ListIndex(count, list) == (count % Len(list)) + 1

\* the keys of gatter_groups in insertion order
RECURSIVE GatterIdsFrom(_, _)
GatterIdsFrom(k, seen) ==
    IF k > Len(points) THEN <<>>
    ELSE IF points[k].gatter \in seen THEN GatterIdsFrom(k + 1, seen)
    ELSE <<points[k].gatter>> \o GatterIdsFrom(k + 1, seen \cup {points[k].gatter})
gatter_ids == GatterIdsFrom(1, {})
gatter_count == Len(gatter_ids)

\* points_by_row[r] of gatter g: the feature ids in layer order
RECURSIVE PointsByRowFrom(_, _, _)
PointsByRowFrom(k, g, r) ==
    IF k > Len(points) THEN <<>>
    ELSE IF points[k].gatter = g /\ points[k].row = r
         THEN <<k>> \o PointsByRowFrom(k + 1, g, r)
         ELSE PointsByRowFrom(k + 1, g, r)
points_by_row(g, r) == PointsByRowFrom(1, g, r)

trees_per_gatter == tree_points_count \div gatter_count

\* lines 84-115 with at least one point in the layer
AllocStart ==
    /\ pc = "generated"
    /\ Len(points) > 0
    /\ UNCHANGED <<inputVars, outcome, genVars, row, points, gatter_tree_count,
                   row_points, i, shares, calls, species_count, group_polygons>>
    /\ \E sd \in Catalogs, p \in Percentages :
          /\ species_distribution' = sd
          /\ tree_percentage' = p
    /\ \E lo \in 1..MaxCluster, hi \in 1..MaxCluster :
          /\ lo <= hi
          /\ min_cluster_size' = lo
          /\ max_cluster_size' = hi
    /\ tree_list' = [k \in DOMAIN TreeListBase' |-> Undrawn]
    /\ shrub_list' = [k \in DOMAIN ShrubListBase' |-> Undrawn]
    /\ global_cluster_id' = 1
    /\ tree_count' = 0
    /\ shrub_count' = 0
    /\ extra_trees' = tree_points_count' % gatter_count
    /\ gi' = 1
    /\ pc' = "gatter_loop"

\* line 114 on an empty layer: tree_points_count // 0
AllocStartFails ==
    /\ pc = "generated"
    /\ Len(points) = 0
    /\ \E sd \in Catalogs, p \in Percentages :
          /\ species_distribution' = sd
          /\ tree_percentage' = p
    /\ \E lo \in 1..MaxCluster, hi \in 1..MaxCluster :
          /\ lo <= hi
          /\ min_cluster_size' = lo
          /\ max_cluster_size' = hi
    /\ pc' = "crashed"
    /\ outcome' = "ZeroDivisionError"
    /\ UNCHANGED <<inputVars, genVars, row, points, allocVars, species_count, group_polygons>>

\* a bug: the extra tree also given when none is left
GatterShareAlwaysExtra(extra) == trees_per_gatter + (IF extra >= 0 THEN 1 ELSE 0)

\* lines 131-140: next gatter, its share of the trees
GatterShare(extra) == trees_per_gatter + (IF extra > 0 THEN 1 ELSE 0)

GatterNext ==
    /\ pc = "gatter_loop"
    /\ gi <= gatter_count
    /\ gatter_tree_count' = GatterShare(extra_trees)
    /\ extra_trees' = Max(0, extra_trees - 1)
    /\ shares' = Append(shares, GatterShare(extra_trees))
    /\ row' = 0
    /\ pc' = "row_loop"
    /\ UNCHANGED <<inputVars, outcome, genVars, points, paramVars, tree_list,
                   shrub_list, global_cluster_id, tree_count, shrub_count, gi,
                   row_points, i, calls, species_count, group_polygons>>

\* lines 143-146: next row of the gatter, shuffled
RowNext ==
    /\ pc = "row_loop"
    /\ row < rows
    /\ row_points' \in Shuffles(points_by_row(gatter_ids[gi], row))
    /\ i' = 0
    /\ pc' = "while"
    /\ UNCHANGED <<inputVars, outcome, genVars, row, points, paramVars, tree_list,
                   shrub_list, global_cluster_id, tree_count, shrub_count,
                   extra_trees, gatter_tree_count, gi, shares, calls, species_count, group_polygons>>

\* the rows of the gatter are done
GatterEnd ==
    /\ pc = "row_loop"
    /\ row = rows
    /\ gi' = gi + 1
    /\ pc' = "gatter_loop"
    /\ UNCHANGED <<inputVars, outcome, genVars, row, points, paramVars, tree_list,
                   shrub_list, global_cluster_id, tree_count, shrub_count,
                   extra_trees, gatter_tree_count, row_points, i, shares, calls,
                   species_count, group_polygons>>

\* a bug: the last row taken to be row `rows`
EdgeOrQuotaMetLastRowOff == row = 0 \/ row = rows \/ tree_count >= tree_points_count

\* line 148
EdgeOrQuotaMet == row = 0 \/ row = rows - 1 \/ tree_count >= tree_points_count
\* a bug: the share of the gatter is not looked at
TreeBranchNoShare == ~EdgeOrQuotaMet

\* lines 148 and 153: the position gets a tree
TreeBranch == ~EdgeOrQuotaMet /\ gatter_tree_count > 0

\* a bug: the cluster is one position shorter than drawn
ClusterSizeShort(drawn, len, start) == Min(Max(drawn - 1, 1), len - start)

\* min(random.randint(min_cluster_size, max_cluster_size), len(points) - start_index)
ClusterSize(drawn, len, start) == Min(drawn, len - start)

\* a bug: setAttribute('type', ...) forgotten
SetAttributesNoType(ids, sp, ty, cl) ==
    [k \in DOMAIN points |->
        IF k \in ids THEN [points[k] EXCEPT !.species = sp, !.cluster_id = cl]
        ELSE points[k]]

\* species, type and cluster_id written to the features ids
SetAttributes(ids, sp, ty, cl) ==
    [k \in DOMAIN points |->
        IF k \in ids THEN [points[k] EXCEPT !.species = sp, !.type = ty, !.cluster_id = cl]
        ELSE points[k]]

\* a bug: global_cluster_id is not incremented
NextClusterIdStuck(c) == c

\* global_cluster_id += 1
NextClusterId(c) == c + 1

\* lines 150 and 165: i += assign_shrub_cluster(row_points, i)
AssignShrubCluster ==
    /\ pc = "while"
    /\ i < Len(row_points)
    /\ ~TreeBranch
    /\ Len(shrub_list) > 0
    /\ \E drawn \in min_cluster_size..max_cluster_size :
       \E sp \in Drawn(shrub_list, ShrubListBase, ListIndex(shrub_count, shrub_list)) :
          LET cluster_size == ClusterSize(drawn, Len(row_points), i)
              ids == {row_points[k + 1] : k \in i..(i + cluster_size - 1)}
          IN /\ points' = SetAttributes(ids, sp, "shrub", global_cluster_id)
             /\ shrub_list' = [shrub_list EXCEPT ![ListIndex(shrub_count, shrub_list)] = sp]
             /\ shrub_count' = shrub_count + cluster_size
             /\ i' = i + cluster_size
             /\ calls' = Append(calls, [gatter |-> gatter_ids[gi], row |-> row,
                                        cluster_id |-> global_cluster_id, ids |-> ids])
    /\ global_cluster_id' = NextClusterId(global_cluster_id)
    /\ UNCHANGED <<inputVars, pc, outcome, genVars, row, paramVars, tree_list,
                   tree_count, extra_trees, gatter_tree_count, gi, row_points,
                   shares, species_count, group_polygons>>

\* line 120 with no shrub species: shrub_count % 0
AssignShrubClusterFails ==
    /\ pc = "while"
    /\ i < Len(row_points)
    /\ ~TreeBranch
    /\ Len(shrub_list) = 0
    /\ pc' = "crashed"
    /\ outcome' = "ZeroDivisionError"
    /\ UNCHANGED <<inputVars, genVars, row, points, paramVars, allocVars, species_count, group_polygons>>

\* lines 154-162: one tree
\* a bug: i += 1 forgotten after a tree
AssignTreeStays ==
    /\ pc = "while"
    /\ i < Len(row_points)
    /\ TreeBranch
    /\ Len(tree_list) > 0
    /\ \E sp \in Drawn(tree_list, TreeListBase, ListIndex(tree_count, tree_list)) :
          /\ points' = SetAttributes({row_points[i + 1]}, sp, "tree", 0)
          /\ tree_list' = [tree_list EXCEPT ![ListIndex(tree_count, tree_list)] = sp]
    /\ tree_count' = tree_count + 1
    /\ gatter_tree_count' = gatter_tree_count - 1
    /\ UNCHANGED <<inputVars, pc, outcome, genVars, row, paramVars, shrub_list,
                   global_cluster_id, shrub_count, extra_trees, gi, row_points, i,
                   shares, calls, species_count, group_polygons>>

\* lines 153-163: one tree
AssignTree ==
    /\ pc = "while"
    /\ i < Len(row_points)
    /\ TreeBranch
    /\ Len(tree_list) > 0
    /\ \E sp \in Drawn(tree_list, TreeListBase, ListIndex(tree_count, tree_list)) :
          /\ points' = SetAttributes({row_points[i + 1]}, sp, "tree", 0)
          /\ tree_list' = [tree_list EXCEPT ![ListIndex(tree_count, tree_list)] = sp]
    /\ tree_count' = tree_count + 1
    /\ gatter_tree_count' = gatter_tree_count - 1
    /\ i' = i + 1
    /\ UNCHANGED <<inputVars, pc, outcome, genVars, row, paramVars, shrub_list,
                   global_cluster_id, shrub_count, extra_trees, gi, row_points,
                   shares, calls, species_count, group_polygons>>

\* line 155 with no tree species: tree_count % 0
AssignTreeFails ==
    /\ pc = "while"
    /\ i < Len(row_points)
    /\ TreeBranch
    /\ Len(tree_list) = 0
    /\ pc' = "crashed"
    /\ outcome' = "ZeroDivisionError"
    /\ UNCHANGED <<inputVars, genVars, row, points, paramVars, allocVars, species_count, group_polygons>>

\* the while loop of the row ends
RowEnd ==
    /\ pc = "while"
    /\ i >= Len(row_points)
    /\ row' = row + 1
    /\ pc' = "row_loop"
    /\ UNCHANGED <<inputVars, outcome, genVars, points, paramVars, allocVars,
                   species_count, group_polygons>>

\* line 167: point_layer.commitChanges(), return point_layer
AllocCommit ==
    /\ pc = "gatter_loop"
    /\ gi > gatter_count
    /\ pc' = "allocated"
    /\ outcome' = "ok"
    /\ UNCHANGED <<inputVars, genVars, row, points, paramVars, allocVars, species_count, group_polygons>>

NextAlloc ==
    \/ AllocStart \/ AllocStartFails \/ GatterNext \/ RowNext \/ GatterEnd
    \/ AssignShrubCluster \/ AssignShrubClusterFails \/ AssignTree
    \/ AssignTreeFails \/ RowEnd \/ AllocCommit

\* ---- create_group_polygons --------------------------------------------------
\* unique_species: the species values of the layer
unique_species == {points[k].species : k \in DOMAIN points}

\* {species: 0 for species in unique_species}
ZeroCounts == [sp \in unique_species |-> 0]

\* a bug: the counts of the gatter are set up anew for every point
AddPointResets(groups, k) ==
    LET g == points[k].gatter
        sp == points[k].species
    IN IF \E n \in DOMAIN groups : groups[n].gatter = g
       THEN [n \in DOMAIN groups |->
               IF groups[n].gatter = g
               THEN [groups[n] EXCEPT !.members = Append(@, k),
                                      !.counts = [ZeroCounts EXCEPT ![sp] = 1]]
               ELSE groups[n]]
       ELSE Append(groups, [gatter |-> g, members |-> <<k>>,
                            counts |-> [ZeroCounts EXCEPT ![sp] = 1]])

\* lines 212-220: the point joins the group of its gatter and is counted
\* under its species
AddPoint(groups, k) ==
    LET g == points[k].gatter
        sp == points[k].species
    IN IF \E n \in DOMAIN groups : groups[n].gatter = g
       THEN [n \in DOMAIN groups |->
               IF groups[n].gatter = g
               THEN [groups[n] EXCEPT !.members = Append(@, k), !.counts[sp] = @ + 1]
               ELSE groups[n]]
       ELSE Append(groups, [gatter |-> g, members |-> <<k>>,
                            counts |-> [ZeroCounts EXCEPT ![sp] = 1]])

\* the pass over point_layer.getFeatures()
RECURSIVE GroupsFrom(_, _)
GroupsFrom(k, groups) ==
    IF k > Len(points) THEN groups
    ELSE GroupsFrom(k + 1, AddPoint(groups, k))

\* one polygon per entry of gatter_groups, with the counts of every species
\* of unique_species; the hull, its buffer, area and perimeter are left out
CreateGroupPolygons ==
    /\ pc = "allocated"
    /\ group_polygons' = GroupsFrom(1, <<>>)
    /\ pc' = "polygons"
    /\ UNCHANGED <<inputVars, outcome, genVars, row, points, paramVars, allocVars,
                   species_count>>

\* ---- create_species_summary_table_with_percentages -------------------------
\* `if species and species.strip()`: catalog names are never blank
Counted(sp) == sp # NULL /\ sp # ""

\* a bug: species_count[key] = 1, the count so far dropped
BumpNoAdd(counts, key) ==
    IF \E k \in DOMAIN counts : counts[k].key = key
    THEN counts
    ELSE Append(counts, [key |-> key, count |-> 1])

\* species_count[key] = species_count.get(key, 0) + 1
Bump(counts, key) ==
    IF \E k \in DOMAIN counts : counts[k].key = key
    THEN [k \in DOMAIN counts |->
            IF counts[k].key = key THEN [counts[k] EXCEPT !.count = @ + 1] ELSE counts[k]]
    ELSE Append(counts, [key |-> key, count |-> 1])

\* the pass over point_layer.getFeatures()
RECURSIVE SpeciesCountFrom(_, _)
SpeciesCountFrom(k, counts) ==
    IF k > Len(points) THEN counts
    ELSE IF Counted(points[k].species)
         THEN SpeciesCountFrom(k + 1, Bump(counts, <<points[k].species, points[k].type>>))
         ELSE SpeciesCountFrom(k + 1, counts)

\* one record (species, type, count) per key; the percentage column is
\* count / total_points * 100 and is left out
CreateSpeciesSummary ==
    /\ pc = "polygons"
    /\ species_count' = SpeciesCountFrom(1, <<>>)
    /\ pc' = "summarised"
    /\ UNCHANGED <<inputVars, outcome, genVars, row, points, paramVars, allocVars,
                   group_polygons>>

Next == NextGen \/ NextAlloc \/ CreateGroupPolygons \/ CreateSpeciesSummary

\* ---- initial states -------------------------------------------------------
\* single-part features of length 0..MaxLen
SingleParts == {<<len>> : len \in 0..MaxLen}
\* features of two parts
MultiParts == {<<a, b>> : a \in 1..MaxPartLen, b \in 1..MaxPartLen}

FeatureLists(shapes) ==
    UNION {[1..n -> shapes] : n \in 1..MaxFeatures}

\* the number of points generate_points makes of an input
RECURSIVE LayerSize(_, _, _)
LayerSize(fs, r, sp) ==
    IF fs = <<>> THEN 0
    ELSE r * Len(Head(fs)) * ((SeqSum(Head(fs)) + sp - 1) \div sp) + LayerSize(Tail(fs), r, sp)

\* the length of all the lines of a layer together
RECURSIVE TotalLength(_)
TotalLength(fs) == IF fs = <<>> THEN 0 ELSE SeqSum(Head(fs)) + TotalLength(Tail(fs))

\* no row of a layer has two points
Thin(fs, sp) == \A f \in DOMAIN fs : Len(fs[f]) = 1 /\ fs[f][1] <= sp

\* the inputs: layers of lines of up to MaxLen together that make up to
\* MaxPoints points, and layers of rows of one point that make up to
\* MaxThinPoints points
InitWith(shapes, spacings) ==
    /\ features \in FeatureLists(shapes)
    /\ rows \in 1..MaxRows
    /\ plant_spacing \in spacings
    /\ \/ /\ TotalLength(features) <= MaxLen
          /\ LayerSize(features, rows, plant_spacing) <= MaxPoints
       \/ /\ Thin(features, plant_spacing)
          /\ LayerSize(features, rows, plant_spacing) <= MaxThinPoints
    /\ pc = "generate"
    /\ outcome = "running"
    /\ fi = 1 /\ li = 1 /\ row = 0 /\ distance = 0
    /\ id_counter = 1 /\ gatter_counter = 1
    /\ points = <<>>
    /\ species_distribution = <<>>
    /\ tree_percentage = 0
    /\ min_cluster_size = 1 /\ max_cluster_size = 1
    /\ tree_list = <<>> /\ shrub_list = <<>>
    /\ global_cluster_id = 1 /\ tree_count = 0 /\ shrub_count = 0
    /\ extra_trees = 0 /\ gatter_tree_count = 0
    /\ gi = 1 /\ row_points = <<>> /\ i = 0
    /\ shares = <<>> /\ calls = <<>>
    /\ species_count = <<>>
    /\ group_polygons = <<>>

InitGen == InitWith(SingleParts \cup MultiParts, 1..MaxSpacing)

SpecGen == InitGen /\ [][NextGen]_vars

Init == InitWith(SingleParts, {1})

Spec == Init /\ [][Next]_vars

\* ---- properties -----------------------------------------------------------
Started == pc \notin {"generate", "generated"}
Finished == pc \in {"allocated", "polygons", "summarised"}
CatalogNames == Range(tree_species) \cup Range(shrub_species)
IsEdge(k) == points[k].row = 0 \/ points[k].row = rows - 1
TreesIn(g) == Cardinality({k \in DOMAIN points : points[k].gatter = g /\ points[k].type = "tree"})
InnerIn(g) == Cardinality({k \in DOMAIN points : points[k].gatter = g /\ ~IsEdge(k)})
ClusterIds == {points[k].cluster_id : k \in DOMAIN points} \ {0, NULL_INT}
Members(c) == {k \in DOMAIN points : points[k].cluster_id = c}

\* C1: when policy D has finished with a non-empty tree and a non-empty shrub
\* catalog, every position has a species of the catalog and the type tree or
\* shrub
C1_EveryPositionAssigned ==
    (Finished /\ Len(tree_species) > 0 /\ Len(shrub_species) > 0) =>
        \A k \in DOMAIN points :
            /\ points[k].species # NULL
            /\ points[k].species \in CatalogNames
            /\ points[k].type \in {"tree", "shrub"}

\* a finished run with trees and shrubs in it, one shrub on an inner row
C1_Witness ==
    /\ pc = "allocated"
    /\ species_distribution = FullCatalog
    /\ \E k \in DOMAIN points : points[k].type = "tree"
    /\ \E k \in DOMAIN points : points[k].type = "shrub" /\ ~IsEdge(k)

\* C2: in every state no position of row 0 or row rows-1 has the type tree
C2_EdgeRowsNeverTree ==
    \A k \in DOMAIN points : IsEdge(k) => points[k].type # "tree"

\* two rows, both edges, finished with the whole tree quota left over
C2_Witness ==
    /\ pc = "allocated"
    /\ rows = 2
    /\ Len(tree_list) > 0
    /\ tree_points_count > 0
    /\ tree_count = 0
    /\ \A k \in DOMAIN points : points[k].type = "shrub"

\* C3 as stated: every gatter ends with exactly its share of trees
C3_TreesEqualShare ==
    Finished => \A g \in DOMAIN shares : TreesIn(gatter_ids[g]) = shares[g]

\* C3 amended: every gatter ends with as many trees as its share, or with all
\* its inner-row positions as trees when those are fewer than the share
C3_TreesEqualShareOrInner ==
    Finished => \A g \in DOMAIN shares :
        TreesIn(gatter_ids[g]) = Min(shares[g], InnerIn(gatter_ids[g]))

\* one gatter short of inner positions and one with its exact share
C3_Witness ==
    /\ pc = "allocated"
    /\ \E g \in DOMAIN shares :
          /\ InnerIn(gatter_ids[g]) > 0
          /\ InnerIn(gatter_ids[g]) < shares[g]
          /\ TreesIn(gatter_ids[g]) = InnerIn(gatter_ids[g])

\* C4: the share computed for the k-th gatter is q + 1 for the first r
\* gatters and q for the later ones (q, r the quotient and remainder of the
\* tree quota by the number of gatters); the shares of a finished run sum to
\* the quota
C4_SharesSplitQuota ==
    Started /\ gatter_count > 0 =>
        /\ \A k \in DOMAIN shares :
              shares[k] = (tree_points_count \div gatter_count)
                          + (IF k <= tree_points_count % gatter_count THEN 1 ELSE 0)
        /\ Finished => Len(shares) = gatter_count /\ SeqSum(shares) = tree_points_count

\* two gatters, a quota that leaves a remainder and a positive quotient
C4_Witness ==
    /\ pc = "allocated"
    /\ gatter_count = 2
    /\ tree_points_count % gatter_count = 1
    /\ tree_points_count \div gatter_count >= 1
    /\ shares[1] = shares[2] + 1

\* C5: a cluster has at most max_cluster_size positions, and one with fewer
\* than min_cluster_size is the last cluster made in its gatter and row
C5_ClusterSizes ==
    \A c \in ClusterIds :
        /\ Cardinality(Members(c)) <= max_cluster_size
        /\ Cardinality(Members(c)) < min_cluster_size =>
              \A k \in Members(c), j \in DOMAIN points :
                  (points[j].gatter = points[k].gatter /\ points[j].row = points[k].row)
                      => points[j].cluster_id <= c

\* a row holding a full cluster followed by a shorter one
C5_Witness ==
    /\ pc = "allocated"
    /\ \E c \in ClusterIds, d \in ClusterIds :
          /\ d < c
          /\ Cardinality(Members(c)) < min_cluster_size
          /\ Cardinality(Members(d)) >= min_cluster_size
          /\ \E k \in Members(c), j \in Members(d) :
                points[j].gatter = points[k].gatter /\ points[j].row = points[k].row

\* C6: after policy D cluster_id is 0 exactly on the trees and positive on the
\* shrubs; the k-th call of the clustering routine uses the id k and the
\* positions carrying that id are the ones that call wrote, all with one
\* shrub species
C6_ClusterIds ==
    /\ \A c \in DOMAIN calls :
          /\ calls[c].cluster_id = c
          /\ Finished => Members(c) = calls[c].ids
    /\ Finished =>
          /\ \A k \in DOMAIN points :
                /\ points[k].cluster_id = 0 <=> points[k].type = "tree"
                /\ points[k].type = "shrub" => points[k].cluster_id > 0
          /\ ClusterIds = DOMAIN calls
          /\ \A j \in DOMAIN points, k \in DOMAIN points :
                (points[j].cluster_id = points[k].cluster_id /\ points[j].cluster_id > 0)
                    => (points[j].species = points[k].species
                        /\ points[j].species \in Range(shrub_species))

\* trees, a cluster of two positions or more, and clusters of different
\* species in different rows
C6_Witness ==
    /\ pc = "allocated"
    /\ \E k \in DOMAIN points : points[k].cluster_id = 0
    /\ \E j \in DOMAIN points, k \in DOMAIN points :
          /\ points[j].row # points[k].row
          /\ points[j].cluster_id > 0 /\ points[k].cluster_id > 0
          /\ points[j].species # points[k].species
    /\ \E c \in ClusterIds : Cardinality(Members(c)) >= 2

\* ---- properties of generate_points ----------------------------------------
PartLength(f, l) == features[f][l]
At(f, l, r, d) ==
    {k \in DOMAIN points : points[k].feat = f /\ points[k].part = l
                           /\ points[k].row = r /\ points[k].dist = d}
Distances == {d \in 0..(MaxLen + MaxSpacing) : d % plant_spacing = 0}

\* C7 as stated: for every part and row there is exactly one position at each
\* multiple of plant_spacing below the length of that part, and none elsewhere
C7_PositionsPerPart ==
    pc = "generated" =>
        \A f \in DOMAIN features : \A l \in DOMAIN features[f] :
        \A r \in 0..(rows - 1) : \A d \in Distances :
            Cardinality(At(f, l, r, d)) = (IF d < PartLength(f, l) THEN 1 ELSE 0)

Unwritten(k) ==
    /\ points[k].species = NULL
    /\ points[k].cluster_id = NULL_INT
    /\ points[k].type = TypeValue(points[k].row)

\* C9 as stated, on a layer with points: with no tree species or no shrub
\* species the allocator ends with a reported precondition error and has
\* written no position
C9_EmptyCatalogGuarded ==
    (Started /\ Len(points) > 0 /\ (Len(tree_species) = 0 \/ Len(shrub_species) = 0)) =>
        /\ \A k \in DOMAIN points : Unwritten(k)
        /\ pc \in {"allocated", "summarised", "crashed"} => outcome = "PreconditionError"

\* ---- properties of the summary --------------------------------------------
Pairs == {<<points[k].species, points[k].type>> : k \in DOMAIN points}
WithPair(key) == {k \in DOMAIN points : <<points[k].species, points[k].type>> = key}
Counts == [k \in DOMAIN species_count |-> species_count[k].count]

\* C10: the summary of the output of policy D has one record for each
\* (species, type) pair of the layer, its count is the number of positions
\* with that pair, and the counts sum to the number of positions
C10_SummaryCounts ==
    pc = "summarised" =>
        /\ {species_count[k].key : k \in DOMAIN species_count} = Pairs
        /\ Len(species_count) = Cardinality(Pairs)
        /\ \A k \in DOMAIN species_count :
              species_count[k].count = Cardinality(WithPair(species_count[k].key))
        /\ SeqSum(Counts) = Len(points)

\* a summary of three pairs or more, one of them counted twice or more
C10_Witness ==
    /\ pc = "summarised"
    /\ Len(species_count) >= 3
    /\ \E k \in DOMAIN species_count : species_count[k].count >= 2
    /\ \E k \in DOMAIN species_count : species_count[k].key[2] = "tree"

\* ---- properties of the group polygons ---------------------------------------
GatterValues == {points[k].gatter : k \in DOMAIN points}
InGatter(g) == {k \in DOMAIN points : points[k].gatter = g}
WithSpecies(sp) == {k \in DOMAIN points : points[k].species = sp}
RECURSIVE SumOver(_, _)
SumOver(f, S) ==
    IF S = {} THEN 0
    ELSE LET x == CHOOSE y \in S : TRUE IN f[x] + SumOver(f, S \ {x})
PolygonsMade == pc \in {"polygons", "summarised"}

\* C11: there is one polygon record for each gatter of the layer; it has a
\* count for every species of the layer, equal to the number of positions of
\* that gatter with that species; the counts of a record sum to the size of
\* the gatter and the counts of a species over the records to the number of
\* positions with that species
C11_PolygonCounts ==
    PolygonsMade =>
        /\ {group_polygons[n].gatter : n \in DOMAIN group_polygons} = GatterValues
        /\ Len(group_polygons) = Cardinality(GatterValues)
        /\ \A n \in DOMAIN group_polygons :
              LET g == group_polygons[n].gatter
                  c == group_polygons[n].counts
              IN /\ DOMAIN c = {points[k].species : k \in DOMAIN points}
                 /\ \A sp \in DOMAIN c : c[sp] = Cardinality(InGatter(g) \cap WithSpecies(sp))
                 /\ SumOver(c, DOMAIN c) = Cardinality(InGatter(g))
        /\ \A sp \in {points[k].species : k \in DOMAIN points} :
              SumOver([n \in DOMAIN group_polygons |-> group_polygons[n].counts[sp]],
                      DOMAIN group_polygons) = Cardinality(WithSpecies(sp))

\* two polygons, a species counted 0 in one of them and twice or more in the
\* other
C11_Witness ==
    /\ pc = "polygons"
    /\ Len(group_polygons) = 2
    /\ \E sp \in DOMAIN group_polygons[1].counts :
          \E m \in {1, 2} :
              /\ group_polygons[m].counts[sp] = 0
              /\ group_polygons[3 - m].counts[sp] >= 2

\* ---- properties of the direction estimate -----------------------------------
\* C12 as stated: the two distances queried for the direction of a position at
\* distance d are d and d + plant_spacing when d + plant_spacing is below the
\* length, and d - plant_spacing and d otherwise, and both lie between 0 and
\* the length of the line; stated for features of a single part, where the
\* length of the part is the length of the geometry
C12_DirectionQueriesInRange ==
    \A k \in DOMAIN points :
        LET p == points[k]
            L == PartLength(p.feat, p.part)
        IN Len(features[p.feat]) = 1 =>
              /\ <<p.dir_from, p.dir_to>> \in
                    {<<p.dist, p.dist + plant_spacing>>, <<p.dist - plant_spacing, p.dist>>}
              /\ 0 <= p.dir_from
              /\ p.dir_to <= L

\* ---- properties of the order within a row -----------------------------------
\* positions of one row of one gatter, on the same part
SameRow(j, k) ==
    /\ points[j].gatter = points[k].gatter
    /\ points[j].row = points[k].row
    /\ points[j].feat = points[k].feat
    /\ points[j].part = points[k].part

\* C13 as stated: when policy D has finished, every position that lies along
\* the line between two positions of the same row and gatter with the same
\* shrub cluster_id has that cluster_id too
C13_ClustersContiguous ==
    Finished =>
        \A j \in DOMAIN points, m \in DOMAIN points, k \in DOMAIN points :
            ( /\ SameRow(j, k) /\ SameRow(j, m)
              /\ points[j].cluster_id \in ClusterIds
              /\ points[j].cluster_id = points[k].cluster_id
              /\ points[j].dist < points[m].dist
              /\ points[m].dist < points[k].dist )
            => points[m].cluster_id = points[j].cluster_id

\* ---- properties of the progress of policy D ---------------------------------
Stopped == pc = "crashed"
InLoops == pc \in {"gatter_loop", "row_loop", "while"}
\* the positions the pass of the while loop steps over
SteppedOver == {row_points[n + 1] : n \in i..(i' - 1)}
Changed == {k \in DOMAIN points : points'[k] # points[k]}

\* what is left to do: gatters, then rows of the gatter, then positions of the
\* row; all zero once policy D has ended
Rank ==
    IF ~InLoops THEN <<0, 0, 0, 0>>
    ELSE <<gatter_count + 1 - gi,
           IF pc = "gatter_loop" THEN 1 ELSE 0,
           IF pc = "gatter_loop" THEN 0 ELSE rows - row,
           CASE pc = "gatter_loop" -> 0
             [] pc = "row_loop" -> Len(points) + 1
             [] pc = "while" -> Len(row_points) - i>>
RECURSIVE LexLess(_, _)
LexLess(a, b) ==
    /\ a # <<>>
    /\ \/ Head(a) < Head(b)
       \/ Head(a) = Head(b) /\ LexLess(Tail(a), Tail(b))

\* C14: every pass of the while loop of a row advances i by at least 1 and
\* not beyond the end of the row; it writes exactly the positions it steps
\* over, none of which was written before, and no other step of policy D
\* writes a position; every step of policy D lessens what is left to do
\* (gatters, rows, positions, in this order, all natural numbers), so the
\* loops end; tree_count never exceeds tree_points_count; when policy D has
\* finished, all gatters and rows are done and every position is written
C14_LoopTerminates ==
    /\ [][ InLoops =>
             /\ LexLess(Rank', Rank)
             /\ ~Stopped' =>
                   /\ DOMAIN points' = DOMAIN points
                   /\ (pc = "while" /\ pc' = "while") =>
                         /\ i' >= i + 1
                         /\ i' <= Len(row_points)
                         /\ Changed = SteppedOver
                   /\ ~(pc = "while" /\ pc' = "while") => Changed = {}
                   /\ \A k \in Changed : Unwritten(k) /\ ~Unwritten(k)' ]_vars
    /\ [](Rank \in Nat \X Nat \X Nat \X Nat)
    /\ [](Started => tree_count <= tree_points_count)
    /\ [](Finished => /\ gi = gatter_count + 1
                      /\ row = rows
                      /\ \A k \in DOMAIN points : ~Unwritten(k))

\* policy D has ended with all trees of the quota placed and a cluster of two
\* positions
C14_Witness ==
    /\ pc = "allocated"
    /\ tree_points_count > 0
    /\ tree_count = tree_points_count
    /\ \E k \in DOMAIN points : points[k].type = "tree"
    /\ \E c \in ClusterIds : Cardinality(Members(c)) >= 2
====
